---- MODULE Spec2Model ----
(***************************************************************************)
(* The create-release command of the tag database editor                   *)
(* (src/tool/commands/create-release/index.ts): the severity-gated         *)
(* ActionLogger, the source check of every tag against the canonical tag   *)
(* source, the rendering of the five representation kinds and the          *)
(* packaging of each into db.<k>.json, db.<k>.json.gz and db.<k>.js.       *)
(* Every await of the command is one step of the state machine.            *)
(***************************************************************************)
EXTENDS Integers, Sequences, FiniteSets, TLC

VARIABLES
    strict,       \* options.strict
    rewrite,      \* options.rewrite
    sourceCheck,  \* options.sourceCheck
    isAction,     \* action.isAction()
    showProgress, \* process.stderr.isTTY && clc.windowSize.width > 0
    db,           \* db.data: namespace -> sequence of [tag, line] (nsDb.raw())
    logger,       \* "none" | "action" | "default": the logger the database holds
    failed,       \* ActionLogger.failed, the failure threshold
    setFailed,    \* ActionLogger.setFailed
    exitCode,     \* process.exitCode
    findings,     \* the findings logged so far, in order
    stderr,       \* number of progress lines written to stderr
    pc,           \* position in the command
    failedAt,     \* the step whose rejection ended the run, or "none"
    size,         \* runSourceCheck: size
    count,        \* runSourceCheck: count
    nsIdx,        \* runSourceCheck: index of k in the keys of db.data
    tagIdx,       \* runSourceCheck: index of the next pair of nsDb.raw()
    data,         \* createRelease: data[k], "none" until rendered
    cwd,          \* process.cwd()
    old,          \* createRelease: old
    disk,         \* the destination directory: file -> [exists, content]
    kIdx,         \* createRelease: index of k in the packaging loop
    chunk,        \* save: index of the next write to the db.<k>.js stream
    created,      \* the "Created: <file> (<size> bytes)" lines, in order
    persisted,    \* whether db.save() has written the database back
    twin          \* what an earlier run of the checker on this database showed

vars == <<strict, rewrite, sourceCheck, isAction, showProgress, db, logger, failed,
          setFailed, exitCode, findings, stderr, pc, failedAt, size, count, nsIdx,
          tagIdx, data, cwd, old, disk, kIdx, chunk, created, persisted, twin>>

----------------------------------------------------------------------------
(* Bounds of the model *)

\* The largest number of tags in one namespace of the database.
MaxTags == 3

\* The largest number of findings logged in the logger specification.
MaxLog == 4

----------------------------------------------------------------------------
(* Severities and the ActionLogger *)

Severities == <<"info", "warn", "error">>

Severity == {"info", "warn", "error"}

\* Position of a severity in the order info < warn < error.
Rank(s) == CHOOSE i \in 1..3 : Severities[i] = s

ExitSuccess == 0

ExitFailure == 1

\* The field initialiser of ActionLogger.setFailed.
SetFailedInit == [info |-> FALSE, warn |-> FALSE, error |-> TRUE]

\* The constructor's switch: control enters at the case of `t` and falls
\* through every later case, each setting its own entry.
ConstructorNoFallThrough(t) == [SetFailedInit EXCEPT ![t] = TRUE]

ConstructorSetFailed(t) ==
    [s \in Severity |->
        SetFailedInit[s] \/ \E i \in Rank(t)..3 : Severities[i] = s]

\* create-release action: the threshold handed to the ActionLogger.
ThresholdIgnoresStrict(s) == "error"

ThresholdOf(s) == IF s THEN "warn" ELSE "error"

\* ActionLogger.log: whether logging severity `sev` marks the run as failed.
LogNeverFails(sev) == FALSE

LogAlwaysFails(sev) == TRUE

LogSetsFailed(sev) == setFailed[sev]

\* The default Logger of the database, used outside GitHub Actions: it writes
\* the line and leaves the exit code alone.
DefaultLogSetsFailed(sev) == FALSE

\* A finding as the logger receives it: severity, Context (namespace, raw,
\* line) and message.
EntryWithoutLine(sev, ns, tag, line, message) ==
    [sev |-> sev, ns |-> ns, raw |-> tag, line |-> 0, msg |-> message]

Entry(sev, ns, tag, line, message) ==
    [sev |-> sev, ns |-> ns, raw |-> tag, line |-> line, msg |-> message]

----------------------------------------------------------------------------
(* The database and the canonical tag source *)

\* The keys of db.data in iteration order; "rows" is the meta-namespace.
NamespaceName == <<"rows", "artist", "female">>

\* The raw tags a namespace of the modelled databases may hold.
TagsOf(ns) ==
    CASE ns = "rows"   -> {"artist", "female"}
      [] ns = "artist" -> {"ok", "zz", "xx"}
      [] ns = "female" -> {"abcd", "old"}

\* Sequences without repetition over S of length at most n.
RECURSIVE SeqsUpTo(_, _)
SeqsUpTo(S, n) ==
    IF n = 0 THEN {<<>>}
    ELSE LET shorter == SeqsUpTo(S, n - 1)
         IN  shorter \cup
             {Append(q, x) : <<q, x>> \in
                 {<<q, x>> \in shorter \X S :
                     Len(q) = n - 1 /\ \A i \in 1..Len(q) : q[i] # x}}

\* nsDb.raw(): the (tag, tagLine) pairs of a namespace, tagLine.line being the
\* line of the namespace's source document the tag stands on.
RawOf(tags) == [i \in 1..Len(tags) |-> [tag |-> tags[i], line |-> i]]

\* The "rows" namespace lists the other namespaces, one row each.
Databases ==
    [rows   : {RawOf(<<"artist", "female">>)},
     artist : {RawOf(q) : q \in SeqsUpTo(TagsOf("artist"), MaxTags)},
     female : {RawOf(q) : q \in SeqsUpTo(TagsOf("female"), MaxTags)}]

Null == <<>>

\* normalizeTag(ns, tag, true) against the canonical tag set: null when the
\* tag is unknown, else the canonical [namespace, tag].
NormalizeTag(ns, tag) ==
    CASE tag = "ok"  -> <<ns, "ok">>
      [] tag = "xx"  -> <<ns, "xy">>
      [] tag = "old" -> <<"artist", "new">>
      [] OTHER       -> Null

----------------------------------------------------------------------------
(* runSourceCheck *)

TooShort == <<"Tag is too short, you should check it manually.">>

NotFound == <<"Tag not found.">>

RenamedWithoutNamespace(normTag) == <<"Tag renamed: => ", normTag[2]>>

Renamed(normTag) == <<"Tag renamed: => ", normTag[1], ":", normTag[2]>>

RECURSIVE SumSizes(_, _)
SumSizes(d, i) ==
    IF i = 0 THEN 0
    ELSE SumSizes(d, i - 1)
         + (IF NamespaceName[i] = "rows" THEN 0 ELSE Len(d[NamespaceName[i]]))

\* size: the number of tags of all namespaces but "rows".
TotalSize(d) == SumSizes(d, Len(NamespaceName))

\* Whether the loop over db.data skips namespace ns.
IsMetaNever(ns) == FALSE

IsMeta(ns) == ns = "rows"

\* The finding of one tag: <<severity, message>>, or Null for none.
CheckFindingShortBelowTwo(ns, tag) ==
    LET normTag == NormalizeTag(ns, tag)
    IN  IF normTag = Null
        THEN IF Len(tag) < 2
             THEN <<"info", TooShort>>
             ELSE <<"warn", NotFound>>
        ELSE IF normTag[2] # tag
             THEN <<"warn", Renamed(normTag)>>
             ELSE Null

CheckFindingShortUpToFour(ns, tag) ==
    LET normTag == NormalizeTag(ns, tag)
    IN  IF normTag = Null
        THEN IF Len(tag) <= 4
             THEN <<"info", TooShort>>
             ELSE <<"warn", NotFound>>
        ELSE IF normTag[2] # tag
             THEN <<"warn", Renamed(normTag)>>
             ELSE Null

CheckFindingComparesNamespace(ns, tag) ==
    LET normTag == NormalizeTag(ns, tag)
    IN  IF normTag = Null
        THEN IF Len(tag) <= 2
             THEN <<"info", TooShort>>
             ELSE <<"warn", NotFound>>
        ELSE IF normTag[1] # tag
             THEN <<"warn", Renamed(normTag)>>
             ELSE Null

CheckFindingOnlyWithProgress(ns, tag) ==
    LET normTag == NormalizeTag(ns, tag)
    IN  IF ~showProgress
        THEN Null
        ELSE IF normTag = Null
        THEN IF Len(tag) <= 2
             THEN <<"info", TooShort>>
             ELSE <<"warn", NotFound>>
        ELSE IF normTag[2] # tag
             THEN <<"warn", Renamed(normTag)>>
             ELSE Null

CheckFinding(ns, tag) ==
    LET normTag == NormalizeTag(ns, tag)
    IN  IF normTag = Null
        THEN IF Len(tag) <= 2
             THEN <<"info", TooShort>>
             ELSE <<"warn", NotFound>>
        ELSE IF normTag[2] # tag
             THEN <<"warn", Renamed(normTag)>>
             ELSE Null

\* new ActionLogger(t)
NewActionLogger(t) ==
    /\ logger' = "action"
    /\ failed' = t
    /\ setFailed' = ConstructorSetFailed(t)

\* Logger.info / Logger.warn: the entry is emitted and, under the
\* ActionLogger, the exit code is marked when the severity is set to fail.
LogAssignsEitherCode(sev, ns, tag, line, message) ==
    /\ findings' = Append(findings, Entry(sev, ns, tag, line, message))
    /\ exitCode' = IF logger = "action" /\ LogSetsFailed(sev)
                   THEN ExitFailure
                   ELSE ExitSuccess

Log(sev, ns, tag, line, message) ==
    /\ findings' = Append(findings, Entry(sev, ns, tag, line, message))
    /\ exitCode' = IF (IF logger = "action" THEN LogSetsFailed(sev)
                                            ELSE DefaultLogSetsFailed(sev))
                   THEN ExitFailure
                   ELSE exitCode

\* Where the loop stands after db.logger.info / db.logger.warn returned:
\* log marks the exit code and returns, and the loop continues.
AfterLogAborts(sev) ==
    IF logger = "action" /\ LogSetsFailed(sev) THEN "failed" ELSE "check"

AfterLog(sev) == "check"

\* A rejected await: nothing catches it, the command ends with the error.
FailSwallowed(step) ==
    /\ pc' = "leave"
    /\ failedAt' = step

Fail(step) ==
    /\ pc' = "failed"
    /\ failedAt' = step

\* What no step of a run changes: the options, the terminal, the database and
\* the record of the earlier run.
optionVars == <<strict, rewrite, sourceCheck, isAction, showProgress, db, twin>>

loggerVars == <<logger, failed, setFailed>>

checkVars == <<size, count, nsIdx, tagIdx, stderr>>

releaseVars == <<data, cwd, old, disk, kIdx, chunk, created, persisted>>

----------------------------------------------------------------------------
(* Rendering and the packaged bytes *)

\* createRelease: types.
Types == <<"full", "raw", "text", "html", "ast">>

Exts == {"json", "json.gz", "js"}

Files == {<<Types[i], e>> : i \in 1..Len(Types), e \in Exts}

Absent == [exists |-> FALSE, content |-> <<>>]

RECURSIVE TagsFrom(_, _)
TagsFrom(d, i) ==
    IF i = 0 THEN <<>>
    ELSE TagsFrom(d, i - 1)
         \o [j \in 1..Len(d[NamespaceName[i]]) |-> d[NamespaceName[i]][j].tag]

\* db.render(k): the representation of kind k of all namespaces.
Render(d, k) == <<k>> \o TagsFrom(d, Len(NamespaceName))

\* JSON.stringify(data): the JSON text, one token per character group.
JsonStringify(x) ==
    <<"[">> \o [i \in 1..(2 * Len(x) - 1) |->
                   IF i % 2 = 1 THEN x[(i + 1) \div 2] ELSE ","] \o <<"]">>

\* gzip(json): the compressed bytes, a header followed by the text packed two
\* tokens to a byte.
GzipLosesLastToken(json) ==
    <<<<"1f8b">>>> \o
    [i \in 1..(Len(json) \div 2) |-> <<json[2 * i - 1], json[2 * i]>>]

Gzip(json) ==
    <<<<"1f8b">>>> \o
    [i \in 1..((Len(json) + 1) \div 2) |->
        IF 2 * i <= Len(json)
        THEN <<json[2 * i - 1], json[2 * i]>>
        ELSE <<json[2 * i - 1]>>]

\* Buffer.from(gz).toString('base64').
Base64(gz) == [i \in 1..Len(gz) |-> <<"b64">> \o gz[i]]

\* Inflating gzip bytes: the header is taken off and the packed tokens are
\* laid out again.
RECURSIVE Unpack(_, _)
Unpack(bytes, i) == IF i = 0 THEN <<>> ELSE Unpack(bytes, i - 1) \o bytes[i]

Gunzip(gz) ==
    IF gz # <<>> /\ gz[1] = <<"1f8b">>
    THEN Unpack(Tail(gz), Len(gz) - 1)
    ELSE <<"incorrect header check">>

\* Decoding base64 text to bytes.
Base64Decode(text) == [i \in 1..Len(text) |-> Tail(text[i])]

\* The embedded decompressor source (./pako).
Pako == "pako"

\* The five writes of save() to the db.<k>.js stream.
JsChunkPakoBeforeQuote(x, k, c) ==
    CASE c = 1 -> <<"(function(){var d={c:'load_ehtagtranslation_db_", k, "',d:'">>
      [] c = 2 -> Base64(Gzip(JsonStringify(x)))
      [] c = 3 -> <<Pako>>
      [] c = 4 -> <<"'};">>
      [] c = 5 -> <<"})();">>

JsChunk(x, k, c) ==
    CASE c = 1 -> <<"(function(){var d={c:'load_ehtagtranslation_db_", k, "',d:'">>
      [] c = 2 -> Base64(Gzip(JsonStringify(x)))
      [] c = 3 -> <<"'};">>
      [] c = 4 -> <<Pako>>
      [] c = 5 -> <<"})();">>

JsChunks == 5

RECURSIVE SumLen(_, _)
SumLen(chunks, i) == IF i = 0 THEN 0 ELSE SumLen(chunks, i - 1) + Len(chunks[i])

\* fs.stat(file).size.
StatSize(file) ==
    IF file[2] = "js"
    THEN SumLen(disk[file].content, Len(disk[file].content))
    ELSE Len(disk[file].content)

\* What a rejected fs.writeFile may leave of the file: what was there, or the
\* file created and still empty.
FailedWrite(file) == {disk[file], [exists |-> TRUE, content |-> <<>>]}

----------------------------------------------------------------------------
(* The initial states: the options are parsed, nothing has run *)

\* No earlier run is on record.
NoTwin ==
    [ran |-> FALSE, showProgress |-> FALSE, findings |-> <<>>,
     exitCode |-> ExitSuccess, count |-> 0, stderr |-> 0]

Init ==
    /\ strict \in BOOLEAN
    /\ rewrite \in BOOLEAN
    /\ sourceCheck \in BOOLEAN
    /\ isAction \in BOOLEAN
    /\ showProgress \in BOOLEAN
    /\ db \in Databases
    /\ logger = "none"
    /\ failed = "none"
    /\ setFailed = SetFailedInit
    /\ exitCode = ExitSuccess
    /\ findings = <<>>
    /\ stderr = 0
    /\ pc = "create"
    /\ failedAt = "none"
    /\ size = 0
    /\ count = 0
    /\ nsIdx = 0
    /\ tagIdx = 0
    /\ data = [i \in 1..Len(Types) |-> Null]
    /\ cwd = "cwd"
    /\ old = "none"
    /\ disk = [f \in Files |-> Absent]
    /\ kIdx = 0
    /\ chunk = 0
    /\ created = <<>>
    /\ persisted = FALSE
    /\ twin = NoTwin

----------------------------------------------------------------------------
(* create-release action *)

\* if (sourceCheck) await runSourceCheck(db); await createRelease(db, destination)
AfterCreateSkipsCheck(sc) == "render"

AfterCreateAlwaysChecks(sc) == "load"

AfterCreate(sc) == IF sc THEN "load" ELSE "render"

\* Database.create(source, undefined, isAction() ? new ActionLogger(..) : undefined)
DatabaseCreate ==
    /\ pc = "create"
    /\ IF isAction
       THEN NewActionLogger(ThresholdOf(strict))
       ELSE /\ logger' = "default"
            /\ UNCHANGED <<failed, setFailed>>
    /\ pc' = AfterCreate(sourceCheck)
    /\ kIdx' = 1
    /\ UNCHANGED <<optionVars, exitCode, findings, failedAt, checkVars,
                   data, cwd, old, disk, chunk, created, persisted>>

\* runSourceCheck: await loadMasterTags(), then size, count and the loop start.
LoadMasterTags ==
    /\ pc = "load"
    /\ pc' = "check"
    /\ size' = TotalSize(db)
    /\ count' = 0
    /\ nsIdx' = 1
    /\ tagIdx' = 1
    /\ UNCHANGED <<optionVars, loggerVars, exitCode, findings, failedAt, stderr,
                   releaseVars>>

\* loadMasterTags() rejects: runSourceCheck and the command reject with it.
LoadMasterTagsFails ==
    /\ pc = "load"
    /\ Fail("load")
    /\ UNCHANGED <<optionVars, loggerVars, exitCode, findings, checkVars,
                   releaseVars>>

\* for (const k in db.data): if (ns === 'rows') continue
CheckSkipMeta ==
    /\ pc = "check"
    /\ nsIdx <= Len(NamespaceName)
    /\ IsMeta(NamespaceName[nsIdx])
    /\ nsIdx' = nsIdx + 1
    /\ tagIdx' = 1
    /\ UNCHANGED <<optionVars, loggerVars, exitCode, findings, pc, failedAt,
                   size, count, stderr, releaseVars>>

\* One iteration of for (const [tag, tagLine] of nsDb.raw()).
CheckTag ==
    /\ pc = "check"
    /\ nsIdx <= Len(NamespaceName)
    /\ ~IsMeta(NamespaceName[nsIdx])
    /\ tagIdx <= Len(db[NamespaceName[nsIdx]])
    /\ LET ns == NamespaceName[nsIdx]
           tag == db[ns][tagIdx].tag
           tagLine == db[ns][tagIdx]
           finding == CheckFinding(ns, tag)
       IN  /\ count' = count + 1
           /\ stderr' = IF showProgress THEN stderr + 1 ELSE stderr
           /\ IF finding = Null
              THEN UNCHANGED <<findings, exitCode, pc>>
              ELSE /\ Log(finding[1], ns, tag, tagLine.line, finding[2])
                   /\ pc' = AfterLog(finding[1])
    /\ tagIdx' = tagIdx + 1
    /\ UNCHANGED <<optionVars, loggerVars, failedAt, size, nsIdx, releaseVars>>

\* nsDb.raw() is exhausted: the next key of db.data.
CheckNextNamespace ==
    /\ pc = "check"
    /\ nsIdx <= Len(NamespaceName)
    /\ ~IsMeta(NamespaceName[nsIdx])
    /\ tagIdx > Len(db[NamespaceName[nsIdx]])
    /\ nsIdx' = nsIdx + 1
    /\ tagIdx' = 1
    /\ UNCHANGED <<optionVars, loggerVars, exitCode, findings, pc, failedAt,
                   size, count, stderr, releaseVars>>

\* The loop over db.data ends and runSourceCheck returns.
CheckReturn ==
    /\ pc = "check"
    /\ nsIdx > Len(NamespaceName)
    /\ pc' = "render"
    /\ UNCHANGED <<optionVars, loggerVars, exitCode, findings, failedAt,
                   checkVars, releaseVars>>

----------------------------------------------------------------------------
(* createRelease *)

runVars == <<optionVars, loggerVars, exitCode, findings, checkVars>>

\* data[k] = await db.render(k), one kind per step; after the last kind,
\* old = process.cwd() and ensureDir(destination) is started.
RenderKind ==
    /\ pc = "render"
    /\ kIdx <= Len(Types)
    /\ data' = [data EXCEPT ![kIdx] = Render(db, Types[kIdx])]
    /\ IF kIdx < Len(Types)
       THEN /\ kIdx' = kIdx + 1
            /\ UNCHANGED <<pc, old>>
       ELSE /\ kIdx' = 1
            /\ old' = cwd
            /\ pc' = "ensureDir"
    /\ UNCHANGED <<runVars, failedAt, cwd, disk, chunk, created, persisted>>

\* await fs.ensureDir(destination) resolves; process.chdir(destination).
EnsureDir ==
    /\ pc = "ensureDir"
    /\ cwd' = "destination"
    /\ pc' = "writeJson"
    /\ UNCHANGED <<runVars, failedAt, data, old, disk, kIdx, chunk, created,
                   persisted>>

EnsureDirFails ==
    /\ pc = "ensureDir"
    /\ Fail("ensureDir")
    /\ UNCHANGED <<runVars, releaseVars>>

\* save: await fs.writeFile(`db.${type}.json`, json)
WriteJson ==
    /\ pc = "writeJson"
    /\ disk' = [disk EXCEPT ![<<Types[kIdx], "json">>] =
                   [exists |-> TRUE, content |-> JsonStringify(data[kIdx])]]
    /\ pc' = "logJson"
    /\ UNCHANGED <<runVars, failedAt, data, cwd, old, kIdx, chunk, created,
                   persisted>>

\* save: await fs.writeFile(`db.${type}.json.gz`, gz)
WriteGz ==
    /\ pc = "writeGz"
    /\ disk' = [disk EXCEPT ![<<Types[kIdx], "json.gz">>] =
                   [exists |-> TRUE, content |-> Gzip(JsonStringify(data[kIdx]))]]
    /\ pc' = "logGz"
    /\ UNCHANGED <<runVars, failedAt, data, cwd, old, kIdx, chunk, created,
                   persisted>>

\* fs.writeFile rejects.
WriteFileFails ==
    /\ pc \in {"writeJson", "writeGz"}
    /\ LET file == <<Types[kIdx], IF pc = "writeJson" THEN "json" ELSE "json.gz">>
       IN  \E left \in FailedWrite(file) : disk' = [disk EXCEPT ![file] = left]
    /\ Fail(pc)
    /\ UNCHANGED <<runVars, data, cwd, old, kIdx, chunk, created, persisted>>

\* The file logFile stats at this position, and the position after it.
LogTargetGzEarly ==
    CASE pc = "logJson" -> <<"json.gz", "writeGz">>
      [] pc = "logGz"   -> <<"json.gz", "jsWrite">>
      [] pc = "logJs"   -> <<"js", IF kIdx < Len(Types) THEN "writeJson" ELSE "leave">>

LogTarget ==
    CASE pc = "logJson" -> <<"json", "writeGz">>
      [] pc = "logGz"   -> <<"json.gz", "jsWrite">>
      [] pc = "logJs"   -> <<"js", IF kIdx < Len(Types) THEN "writeJson" ELSE "leave">>

\* logFile: console.log(`Created: ${file} (${(await fs.stat(file)).size} bytes)`);
\* after the db.<k>.js line save returns and the loop takes the next kind.
LogFile ==
    /\ pc \in {"logJson", "logGz", "logJs"}
    /\ LET file == <<Types[kIdx], LogTarget[1]>>
       IN  created' = Append(created, [file |-> file, size |-> StatSize(file)])
    /\ pc' = LogTarget[2]
    /\ chunk' = IF pc = "logGz" THEN 1 ELSE chunk
    /\ kIdx' = IF pc = "logJs" /\ kIdx < Len(Types) THEN kIdx + 1 ELSE kIdx
    /\ UNCHANGED <<runVars, failedAt, data, cwd, old, disk, persisted>>

\* fs.stat rejects.
LogFileFails ==
    /\ pc \in {"logJson", "logGz", "logJs"}
    /\ Fail(pc)
    /\ UNCHANGED <<runVars, releaseVars>>

\* One await write(...) to the stream of fs.createWriteStream(`db.${type}.js`);
\* the stream creates the file when it opens.
JsWrite ==
    /\ pc = "jsWrite"
    /\ chunk <= JsChunks
    /\ LET file == <<Types[kIdx], "js">>
           sofar == IF chunk = 1 THEN <<>> ELSE disk[file].content
       IN  disk' = [disk EXCEPT ![file] =
                       [exists |-> TRUE,
                        content |-> Append(sofar, JsChunk(data[kIdx], Types[kIdx], chunk))]]
    /\ chunk' = chunk + 1
    /\ pc' = IF chunk < JsChunks THEN "jsWrite" ELSE "jsEnd"
    /\ UNCHANGED <<runVars, failedAt, data, cwd, old, kIdx, created, persisted>>

\* A write to the stream calls back with an error.
JsWriteFails ==
    /\ pc = "jsWrite"
    /\ chunk <= JsChunks
    /\ Fail("jsWrite")
    /\ UNCHANGED <<runVars, releaseVars>>

\* await promisify(jsonp.end.bind(jsonp))()
JsEnd ==
    /\ pc = "jsEnd"
    /\ pc' = "logJs"
    /\ UNCHANGED <<runVars, failedAt, releaseVars>>

JsEndFails ==
    /\ pc = "jsEnd"
    /\ Fail("jsEnd")
    /\ UNCHANGED <<runVars, releaseVars>>

\* The packaging loop is over: process.chdir(old), createRelease returns and
\* the action goes on to if (rewrite).
Leave ==
    /\ pc = "leave"
    /\ cwd' = old
    /\ pc' = IF rewrite THEN "dbSave" ELSE "done"
    /\ UNCHANGED <<runVars, failedAt, data, old, disk, kIdx, chunk, created,
                   persisted>>

\* await db.save()
DbSave ==
    /\ pc = "dbSave"
    /\ persisted' = TRUE
    /\ pc' = "done"
    /\ UNCHANGED <<runVars, failedAt, data, cwd, old, disk, kIdx, chunk, created>>

----------------------------------------------------------------------------

Next ==
    \/ DatabaseCreate
    \/ LoadMasterTags
    \/ LoadMasterTagsFails
    \/ CheckSkipMeta
    \/ CheckTag
    \/ CheckNextNamespace
    \/ CheckReturn
    \/ RenderKind
    \/ EnsureDir
    \/ EnsureDirFails
    \/ WriteJson
    \/ WriteGz
    \/ WriteFileFails
    \/ LogFile
    \/ LogFileFails
    \/ JsWrite
    \/ JsWriteFails
    \/ JsEnd
    \/ JsEndFails
    \/ Leave
    \/ DbSave

Spec == Init /\ [][Next]_vars

----------------------------------------------------------------------------
(* The ActionLogger on its own: any threshold, any sequence of severities *)

LoggerInit ==
    /\ strict = FALSE
    /\ rewrite = FALSE
    /\ sourceCheck = FALSE
    /\ isAction = TRUE
    /\ showProgress = FALSE
    /\ db = [rows |-> RawOf(<<"artist", "female">>), artist |-> <<>>, female |-> <<>>]
    /\ logger = "none"
    /\ failed = "none"
    /\ setFailed = SetFailedInit
    /\ exitCode = ExitSuccess
    /\ findings = <<>>
    /\ stderr = 0
    /\ pc = "new"
    /\ failedAt = "none"
    /\ size = 0
    /\ count = 0
    /\ nsIdx = 0
    /\ tagIdx = 0
    /\ data = [i \in 1..Len(Types) |-> Null]
    /\ cwd = "cwd"
    /\ old = "none"
    /\ disk = [f \in Files |-> Absent]
    /\ kIdx = 0
    /\ chunk = 0
    /\ created = <<>>
    /\ persisted = FALSE
    /\ twin = NoTwin

\* constructor(readonly failed: keyof Logger = 'error')
LoggerConstruct ==
    /\ pc = "new"
    /\ \E t \in Severity : NewActionLogger(t)
    /\ pc' = "logging"
    /\ UNCHANGED <<optionVars, exitCode, findings, failedAt, checkVars, releaseVars>>

\* info(context, message) / warn(context, message) / error(context, message)
LoggerLog ==
    /\ pc = "logging"
    /\ Len(findings) < MaxLog
    /\ \E sev \in Severity : Log(sev, "artist", "xx", 1, NotFound)
    /\ UNCHANGED <<optionVars, loggerVars, pc, failedAt, checkVars, releaseVars>>

LoggerNext ==
    \/ LoggerConstruct
    \/ LoggerLog

LoggerSpec == LoggerInit /\ [][LoggerNext]_vars

----------------------------------------------------------------------------
(* The checker run twice on one database, with and without progress display *)

CosmeticInit ==
    /\ Init
    /\ sourceCheck
    /\ ~rewrite

\* The checker has returned: what it showed is put on record and the same
\* command is started again, on the same database with the same options, the
\* terminal now the other way round.
SecondRun ==
    /\ pc = "render"
    /\ ~twin.ran
    /\ twin' = [ran |-> TRUE, showProgress |-> showProgress, findings |-> findings,
                exitCode |-> exitCode, count |-> count, stderr |-> stderr]
    /\ showProgress' = ~showProgress
    /\ logger' = "none"
    /\ failed' = "none"
    /\ setFailed' = SetFailedInit
    /\ exitCode' = ExitSuccess
    /\ findings' = <<>>
    /\ stderr' = 0
    /\ pc' = "create"
    /\ size' = 0
    /\ count' = 0
    /\ nsIdx' = 0
    /\ tagIdx' = 0
    /\ kIdx' = 0
    /\ UNCHANGED <<strict, rewrite, sourceCheck, isAction, db, failedAt,
                   data, cwd, old, disk, chunk, created, persisted>>

CosmeticNext ==
    \/ DatabaseCreate
    \/ LoadMasterTags
    \/ CheckSkipMeta
    \/ CheckTag
    \/ CheckNextNamespace
    \/ CheckReturn
    \/ SecondRun

CosmeticSpec == CosmeticInit /\ [][CosmeticNext]_vars

----------------------------------------------------------------------------
(* createRelease(db, destination) on its own: the command without the checker *)

\* createRelease reads nothing but the database and the destination: the
\* command is run without --source-check, outside GitHub Actions, with
\* either value of --rewrite.
ReleaseInit ==
    /\ Init
    /\ ~sourceCheck
    /\ ~strict
    /\ ~isAction
    /\ ~showProgress

ReleaseNext ==
    \/ DatabaseCreate
    \/ RenderKind
    \/ EnsureDir
    \/ EnsureDirFails
    \/ WriteJson
    \/ WriteGz
    \/ WriteFileFails
    \/ LogFile
    \/ LogFileFails
    \/ JsWrite
    \/ JsWriteFails
    \/ JsEnd
    \/ JsEndFails
    \/ Leave
    \/ DbSave

ReleaseSpec == ReleaseInit /\ [][ReleaseNext]_vars

----------------------------------------------------------------------------
(* Vocabulary of the properties *)

\* The run is over: the command returned or a rejected await ended it.
RunEnded == pc \in {"done", "failed"}

\* createRelease is over: it returned or it rejected.
ReleaseEnded == pc \in {"dbSave", "done"} \/ (pc = "failed" /\ failedAt # "load")

\* The checker has returned.
CheckReturned == sourceCheck /\ pc \notin {"create", "load", "check"} /\ failedAt # "load"

\* The (namespace index, pair index) positions of the non-meta namespaces.
Pairs ==
    UNION {{<<i, j>> : j \in 1..Len(db[NamespaceName[i]])} :
              i \in {n \in 1..Len(NamespaceName) : NamespaceName[n] # "rows"}}

PairNs(p) == NamespaceName[p[1]]

PairTag(p) == db[PairNs(p)][p[2]].tag

\* The pairs the loop has been through.
Examined ==
    {p \in Pairs : pc # "create" /\ pc # "load" /\ nsIdx >= 1
                   /\ (p[1] < nsIdx \/ (p[1] = nsIdx /\ p[2] < tagIdx))}

\* The indices of the findings logged for a pair.
FindingsOf(p) ==
    {i \in 1..Len(findings) : findings[i].ns = PairNs(p) /\ findings[i].raw = PairTag(p)}

HasFinding(sev) == \E i \in 1..Len(findings) : findings[i].sev = sev

\* Severity s is at or above threshold t in the order info < warn < error.
AtOrAbove(s, t) ==
    \/ t = "info"
    \/ (t = "warn" /\ s \in {"warn", "error"})
    \/ (t = "error" /\ s = "error")

\* The threshold in force: the ActionLogger's, or the default one.
Threshold == IF logger = "action" THEN failed ELSE "error"

----------------------------------------------------------------------------
(* Properties *)

\* C1: when createRelease ends, normally or by a propagated error, the working
\* directory is the one recorded in `old` before the change into the
\* destination.
C1_CwdRestoredAtEnd ==
    (ReleaseEnded /\ old # "none") => cwd = old

\* C2: a finding at or above the threshold only marks the exit code: the run
\* never ends in the checker, every pair of every non-meta namespace is counted
\* and its finding, if any, is logged, and once the loop is over the checker
\* returns to the orchestrator, which renders next.
C2_FindingsNeverAbort ==
    /\ pc = "failed" => failedAt # "none"
    /\ pc = "check" => ENABLED (CheckSkipMeta \/ CheckTag \/ CheckNextNamespace \/ CheckReturn)
    /\ (pc = "check" /\ nsIdx > Len(NamespaceName)) => ENABLED CheckReturn
    /\ CheckReturned =>
          /\ count = Cardinality(Pairs)
          /\ Examined = Pairs
          /\ \A p \in Pairs :
                CheckFinding(PairNs(p), PairTag(p)) # Null => FindingsOf(p) # {}

\* C2 witness: a complete run whose first finding already crossed the
\* threshold and that logged more findings after it and packaged everything.
C2_Witness ==
    /\ pc = "done"
    /\ sourceCheck
    /\ Len(findings) >= 3
    /\ AtOrAbove(findings[1].sev, Threshold)
    /\ exitCode = ExitFailure
    /\ \A f \in Files : disk[f].exists

\* C3: with the threshold at warn, a run whose findings include warn-level
\* ones and no error-level one ends with the failure exit code set; with the
\* threshold at error the same run ends with it not set.
C3_WarnThreshold ==
    (RunEnded /\ logger = "action" /\ HasFinding("warn") /\ ~HasFinding("error")) =>
        /\ failed = "warn" => exitCode = ExitFailure
        /\ failed = "error" => exitCode = ExitSuccess

C3_Witness ==
    /\ pc = "done"
    /\ failed = "warn"
    /\ HasFinding("warn")
    /\ ~HasFinding("error")
    /\ ~HasFinding("info")
    /\ exitCode = ExitFailure

\* C4: a logger constructed with threshold t marks severity s as failing the
\* run exactly when s is at or above t, and so its exit code is the failure
\* code exactly when a logged severity was at or above t.
C4_ThresholdMonotonic ==
    logger = "action" =>
        /\ \A s \in Severity : setFailed[s] <=> AtOrAbove(s, failed)
        /\ exitCode = ExitFailure <=>
              \E i \in 1..Len(findings) : AtOrAbove(findings[i].sev, failed)

C4_Witness ==
    /\ logger = "action"
    /\ failed = "info"
    /\ Len(findings) = 2
    /\ findings[1].sev = "info"
    /\ exitCode = ExitFailure

\* C5: a run that completes without a fatal error ends with the failure exit
\* code exactly when some finding of the source check was at or above the
\* logger's threshold.
C5_ExitCodeIffThresholdCrossed ==
    pc = "done" =>
        (exitCode # ExitSuccess <=>
            \E i \in 1..Len(findings) : AtOrAbove(findings[i].sev, Threshold))

C5_Witness ==
    /\ pc = "done"
    /\ exitCode = ExitFailure
    /\ HasFinding("info")
    /\ HasFinding("warn")

\* C6 as stated: in every run started with the strict flag a warn-level finding
\* sets the failure exit code, and in every run started without it only
\* error-level findings do.
C6_StrictEveryRun ==
    RunEnded =>
        /\ (strict /\ HasFinding("warn")) => exitCode = ExitFailure
        /\ (~strict /\ exitCode = ExitFailure) => HasFinding("error")

\* C6 amended: the strict flag lowers the threshold of the ActionLogger, the
\* logger of a run under GitHub Actions, from error to warn: in such a run
\* started with the flag a warn-level finding sets the failure exit code; in
\* every run started without the flag only error-level findings do.
C6_StrictUnderActions ==
    /\ logger = "action" => failed = (IF strict THEN "warn" ELSE "error")
    /\ RunEnded =>
          /\ (isAction /\ strict /\ HasFinding("warn")) => exitCode = ExitFailure
          /\ (~strict /\ exitCode = ExitFailure) => HasFinding("error")

C6_Witness ==
    /\ pc = "done"
    /\ isAction
    /\ strict
    /\ HasFinding("warn")
    /\ exitCode = ExitFailure

\* The steps of save() whose await may reject.
SaveSteps == {"writeJson", "logJson", "writeGz", "logGz", "jsWrite", "jsEnd", "logJs"}

\* The three files of kind i as save() leaves them when it returns.
JsonFile(i) == [exists |-> TRUE, content |-> JsonStringify(data[i])]

GzFile(i) == [exists |-> TRUE, content |-> Gzip(JsonStringify(data[i]))]

JsFile(i) ==
    [exists |-> TRUE,
     content |-> [c \in 1..JsChunks |-> JsChunk(data[i], Types[i], c)]]

Packaged(i) ==
    /\ disk[<<Types[i], "json">>] = JsonFile(i)
    /\ disk[<<Types[i], "json.gz">>] = GzFile(i)
    /\ disk[<<Types[i], "js">>] = JsFile(i)

AllRendered == \A i \in 1..Len(Types) : data[i] # Null

\* C7: the stages run in the order load, check (only when requested, and to
\* completion), render of all five kinds, packaging of all five kinds, persist
\* (only when rewrite is enabled): nothing runs before the database is
\* loaded, no render before the checker has been through every pair, no
\* packaging write before the five renders, and the database is persisted only
\* after every kind has been packaged.
C7_StageOrder ==
    /\ pc # "create" => logger # "none"
    /\ ~sourceCheck => (count = 0 /\ nsIdx = 0 /\ findings = <<>>)
    /\ (sourceCheck /\ \E i \in 1..Len(Types) : data[i] # Null) =>
          (nsIdx > Len(NamespaceName) /\ Examined = Pairs /\ count = Cardinality(Pairs))
    /\ (cwd = "destination" \/ created # <<>> \/ \E f \in Files : disk[f].exists) =>
          AllRendered
    /\ persisted =>
          /\ rewrite
          /\ \A i \in 1..Len(Types) : Packaged(i)
          /\ Len(created) = 3 * Len(Types)
    /\ pc = "done" => (persisted <=> rewrite)

C7_Witness ==
    /\ pc = "done"
    /\ sourceCheck
    /\ count = Cardinality(Pairs)
    /\ count >= 4
    /\ persisted
    /\ \A i \in 1..Len(Types) : Packaged(i)

\* C8: a rejected write or stat while kind k is packaged ends the run there
\* and nothing runs after it: no file of a later kind exists, db.<k>.js does
\* not exist when the rejection came before its stream was written, the
\* database is not persisted, and the files of the earlier kinds are as save()
\* left them.
C8_PackagingFailureIsFatal ==
    failedAt \in SaveSteps =>
        /\ pc = "failed"
        /\ ~ENABLED Next
        /\ \A j \in (kIdx + 1)..Len(Types) : \A e \in Exts : disk[<<Types[j], e>>] = Absent
        /\ failedAt \in {"writeJson", "logJson", "writeGz", "logGz"} =>
              disk[<<Types[kIdx], "js">>] = Absent
        /\ ~persisted
        /\ \A j \in 1..(kIdx - 1) : Packaged(j)

C8_Witness ==
    /\ pc = "failed"
    /\ failedAt = "writeGz"
    /\ kIdx = 3
    /\ rewrite
    /\ Packaged(1)
    /\ Packaged(2)
    /\ disk[<<Types[3], "json">>] = JsonFile(3)
    /\ disk[<<Types[3], "json.gz">>].exists

\* C9: a tag of raw length <= 2 that normalizeTag does not know gets exactly
\* one finding when the checker comes to it, of severity info, and never one
\* of severity warn or error.
C9_ShortUnknownIsInfo ==
    \A p \in Pairs :
        (Len(PairTag(p)) <= 2 /\ NormalizeTag(PairNs(p), PairTag(p)) = Null) =>
            /\ \A i \in FindingsOf(p) : findings[i].sev = "info"
            /\ Cardinality(FindingsOf(p)) = (IF p \in Examined THEN 1 ELSE 0)

C9_Witness ==
    /\ pc = "done"
    /\ \E i \in 1..Len(findings) :
          /\ findings[i].raw = "zz"
          /\ findings[i].sev = "info"
          /\ findings[i].msg = TooShort

\* C10: a tag of raw length > 2 that normalizeTag does not know gets a
\* warn-level "Tag not found." finding when the checker comes to it.
C10_LongUnknownIsWarn ==
    \A p \in Examined :
        (Len(PairTag(p)) > 2 /\ NormalizeTag(PairNs(p), PairTag(p)) = Null) =>
            \E i \in FindingsOf(p) :
                /\ findings[i].sev = "warn"
                /\ findings[i].msg = NotFound

C10_Witness ==
    /\ pc = "done"
    /\ \E i \in 1..Len(findings) :
          /\ findings[i].raw = "abcd"
          /\ findings[i].sev = "warn"
          /\ findings[i].msg = NotFound

\* C11: a tag that normalizeTag knows under another name gets, when the
\* checker comes to it, a warn-level finding whose message names the canonical
\* replacement as <namespace>:<canonicalTag>, the namespace being the canonical
\* one.
C11_RenamedIsWarn ==
    \A p \in Examined :
        LET normTag == NormalizeTag(PairNs(p), PairTag(p))
        IN  (normTag # Null /\ normTag[2] # PairTag(p)) =>
                \E i \in FindingsOf(p) :
                    /\ findings[i].sev = "warn"
                    /\ findings[i].msg = <<"Tag renamed: => ", normTag[1], ":", normTag[2]>>

C11_Witness ==
    /\ pc = "done"
    /\ \E i, j \in 1..Len(findings) :
          /\ findings[i].raw = "xx"
          /\ findings[i].sev = "warn"
          /\ findings[i].msg = <<"Tag renamed: => ", "artist", ":", "xy">>
          /\ findings[j].ns = "female"
          /\ findings[j].raw = "old"
          /\ findings[j].msg = <<"Tag renamed: => ", "artist", ":", "new">>

\* C12: a tag that normalizeTag knows under the very name stored gets no
\* finding at any severity; in a namespace holding ok (known), zz (unknown,
\* length 2) and xx (known as xy), ok gets none, zz an info one and xx a warn
\* one.
C12_SameNameIsSilent ==
    \A p \in Pairs :
        LET normTag == NormalizeTag(PairNs(p), PairTag(p))
        IN  (normTag # Null /\ normTag[2] = PairTag(p)) => FindingsOf(p) = {}

C12_Witness ==
    /\ pc = "done"
    /\ sourceCheck
    /\ db.artist = RawOf(<<"ok", "zz", "xx">>)
    /\ db.female = <<>>
    /\ Len(findings) = 2
    /\ findings[1].raw = "zz"
    /\ findings[1].sev = "info"
    /\ findings[2].raw = "xx"
    /\ findings[2].sev = "warn"

\* C13: the namespace "rows" is neither iterated nor counted: no finding is
\* attributed to it, the running count is the number of pairs of the other
\* namespaces gone through, the total is the sum of the sizes of the other
\* namespaces, and the count never exceeds the total.
C13_MetaExcluded ==
    /\ \A i \in 1..Len(findings) : findings[i].ns # "rows"
    /\ count = Cardinality(Examined)
    /\ nsIdx >= 1 =>
          /\ size = Len(db.artist) + Len(db.female)
          /\ count <= size

C13_Witness ==
    /\ pc = "check"
    /\ nsIdx = 2
    /\ tagIdx = 1
    /\ Len(db.rows) = 2
    /\ size = 5
    /\ count = 0

\* C14: when the source check is requested and loadMasterTags rejects, the
\* run ends there: no tag is checked, nothing is rendered, packaged or
\* persisted; when it is not requested, the loader and the checker never run,
\* no finding is emitted and the run goes from the database to the render.
C14_LoadFailure ==
    /\ failedAt = "load" =>
          /\ sourceCheck
          /\ pc = "failed"
          /\ ~ENABLED Next
          /\ count = 0
          /\ findings = <<>>
          /\ \A i \in 1..Len(Types) : data[i] = Null
          /\ \A f \in Files : disk[f] = Absent
          /\ created = <<>>
          /\ cwd = "cwd"
          /\ ~persisted
    /\ ~sourceCheck =>
          /\ pc \notin {"load", "check"}
          /\ failedAt # "load"
          /\ count = 0
          /\ findings = <<>>
          /\ exitCode = ExitSuccess

C14_Witness ==
    /\ pc = "failed"
    /\ failedAt = "load"
    /\ rewrite
    /\ Len(db.artist) = 3

\* C15: two runs of the checker on one database with the same options, one
\* with the progress display and one without, emit the same sequence of
\* findings (tags, severities, messages, lines, order), count the same pairs
\* and leave the same exit code.
C15_ProgressIsCosmetic ==
    (twin.ran /\ pc = "render") =>
        /\ twin.showProgress # showProgress
        /\ findings = twin.findings
        /\ exitCode = twin.exitCode
        /\ count = twin.count

C15_Witness ==
    /\ twin.ran
    /\ pc = "render"
    /\ showProgress
    /\ stderr = 5
    /\ twin.stderr = 0
    /\ Len(findings) >= 3
    /\ exitCode = ExitFailure

\* The "Created" line of file e of kind i has been logged.
Logged(i, e) == \E n \in 1..Len(created) : created[n].file = <<Types[i], e>>

\* C16: once db.<k>.json.gz is packaged, inflating it gives exactly the
\* content of db.<k>.json, which is the JSON text of the rendered data of
\* kind k.
C16_GzRoundTrip ==
    \A i \in 1..Len(Types) :
        Logged(i, "json.gz") =>
            /\ disk[<<Types[i], "json">>].exists
            /\ disk[<<Types[i], "json.gz">>].exists
            /\ Gunzip(disk[<<Types[i], "json.gz">>].content)
                  = disk[<<Types[i], "json">>].content
            /\ disk[<<Types[i], "json">>].content = JsonStringify(Render(db, Types[i]))

C16_Witness ==
    /\ pc = "done"
    /\ Len(db.artist) = 3
    /\ Len(db.female) = 2
    /\ \A i \in 1..Len(Types) :
          /\ Logged(i, "json.gz")
          /\ Len(disk[<<Types[i], "json">>].content) = 17
          /\ Len(disk[<<Types[i], "json.gz">>].content) = 10

\* C17: the finished db.<k>.js is, in this order and nothing else, the prefix
\* declaring {c:'load_ehtagtranslation_db_<k>',d:'...'} with the base64 of the
\* bytes of db.<k>.json.gz, the quote closing the object, the decompressor
\* source and the closing invocation; decoding the payload and inflating it
\* gives exactly the content of db.<k>.json.
C17_JsBundle ==
    \A i \in 1..Len(Types) :
        Logged(i, "js") =>
            LET js == disk[<<Types[i], "js">>].content
            IN  /\ Len(js) = 5
                /\ js[1] = <<"(function(){var d={c:'load_ehtagtranslation_db_",
                             Types[i], "',d:'">>
                /\ Base64Decode(js[2]) = disk[<<Types[i], "json.gz">>].content
                /\ \A n \in 1..Len(js[2]) : Head(js[2][n]) = "b64"
                /\ js[3] = <<"'};">>
                /\ js[4] = <<"pako">>
                /\ js[5] = <<"})();">>
                /\ Gunzip(Base64Decode(js[2])) = disk[<<Types[i], "json">>].content

C17_Witness ==
    /\ pc = "done"
    /\ Len(db.artist) = 3
    /\ \A i \in 1..Len(Types) :
          /\ Logged(i, "js")
          /\ Len(disk[<<Types[i], "js">>].content[2]) >= 8

\* The order of the extensions within a kind, the kind of the n-th file of
\* the run and that file.
ExtOrder == <<"json", "json.gz", "js">>

KindAt(n) == ((n - 1) \div 3) + 1

FileAt(n) == <<Types[KindAt(n)], ExtOrder[((n - 1) % 3) + 1]>>

\* The n-th file of the run as save() leaves it once written.
Written(n) ==
    CASE n % 3 = 1 -> JsonFile(KindAt(n))
      [] n % 3 = 2 -> GzFile(KindAt(n))
      [] n % 3 = 0 -> JsFile(KindAt(n))

\* C18: packaging is sequential: the "Created" lines come in the order full,
\* raw, text, html, ast and within a kind .json, .json.gz, .js; a file's line is
\* logged only when the file is completely written, with its size; and no
\* file is touched before the line of the file before it is logged, so that
\* at most one kind is in progress.
C18_PackagingSequential ==
    /\ Len(created) <= 3 * Len(Types)
    /\ \A n \in 1..Len(created) :
          LET file == FileAt(n)
              on == disk[file]
          IN  /\ created[n].file = file
              /\ on = Written(n)
              /\ created[n].size = (IF n % 3 = 0
                                    THEN SumLen(on.content, JsChunks)
                                    ELSE Len(on.content))
    /\ \A n \in (Len(created) + 2)..(3 * Len(Types)) : ~disk[FileAt(n)].exists
    /\ pc = "jsWrite" =>
          /\ Len(created) = 3 * (kIdx - 1) + 2
          /\ (chunk > 1 => Len(disk[<<Types[kIdx], "js">>].content) = chunk - 1)

C18_Witness ==
    /\ pc = "jsWrite"
    /\ kIdx = 4
    /\ chunk = 3
    /\ Len(created) = 11
    /\ created[11].file = <<"html", "json.gz">>
    /\ ~disk[<<"ast", "json">>].exists

\* C19: once a finding has set the exit code to the failure value, no later
\* step of the run changes it.
C19_ExitCodeMonotone ==
    [][exitCode = ExitFailure => exitCode' = ExitFailure]_vars

\* C19 witness: a finished run whose exit code is the failure value although
\* a finding below the threshold was logged after the one that set it, and
\* that rendered, packaged and persisted afterwards.
C19_Witness ==
    /\ pc = "done"
    /\ persisted
    /\ exitCode = ExitFailure
    /\ \E i, j \in 1..Len(findings) :
          /\ i < j
          /\ AtOrAbove(findings[i].sev, Threshold)
          /\ ~AtOrAbove(findings[j].sev, Threshold)

NsIndex(ns) == CHOOSE i \in 1..Len(NamespaceName) : NamespaceName[i] = ns

\* C20: every pair gets at most one finding, no finding is error-level, the
\* findings come in iteration order (namespace by namespace, pair by pair),
\* and each carries the namespace, raw tag and source line of a pair the loop
\* has been through.
C20_FindingsInOrder ==
    /\ \A p \in Pairs : Cardinality(FindingsOf(p)) <= 1
    /\ \A i \in 1..Len(findings) :
          /\ findings[i].sev \in {"info", "warn"}
          /\ \E p \in Examined :
                /\ findings[i].ns = PairNs(p)
                /\ findings[i].raw = PairTag(p)
                /\ findings[i].line = db[PairNs(p)][p[2]].line
    /\ \A i, j \in 1..Len(findings) :
          i < j =>
              \/ NsIndex(findings[i].ns) < NsIndex(findings[j].ns)
              \/ /\ findings[i].ns = findings[j].ns
                 /\ findings[i].line < findings[j].line

C20_Witness ==
    /\ pc = "done"
    /\ Len(findings) = 4
    /\ findings[1].ns = "artist"
    /\ findings[1].line = 2
    /\ findings[2].ns = "artist"
    /\ findings[2].line = 3
    /\ findings[3].ns = "female"
    /\ findings[3].line = 1
    /\ findings[4].line = 2

====
